---- MODULE Spec2Model ----
(***************************************************************************)
(* Teloxide-Plugins: the plugin registry, the command index, the regex     *)
(* cache and the dispatcher of src/src/registry.rs, with the descriptor    *)
(* construction of the TeloxidePlugin attribute macro                      *)
(* (src/teloxide-plugins-macros/src/lib.rs).                               *)
(*                                                                         *)
(* Strings are TLA+ strings, Option<T> is a sequence of length 0 (None) or  *)
(* 1 (Some).  A &'static PluginMeta is the index of the static it points   *)
(* to.                                                                     *)
(***************************************************************************)
EXTENDS Integers, Sequences, FiniteSets, TLC

\* ------------------------------------------------------------------ bounds
\* Total number of register_plugin calls in one run.
MaxRegistry == 2

\* Number of plugins registered before main in the runs that start after
\* startup.
MaxStartup == 3

\* Two threads that call register_plugin and two dispatch tasks: every
\* interference is between one call and one other.
Registrars == {1, 2}
Dispatchers == {1, 2}

\* ------------------------------------------------------------------ options
None == << >>
Some(x) == << x >>
IsSome(o) == Len(o) = 1
Unwrap(o) == o[1]

\* ------------------------------------------------------------------ strings
\* String values are TLA+ strings: \o, Len and SubSeq act on them.
CharAt(s, k) == SubSeq(s, k, k)
Rest(s) == SubSeq(s, 2, Len(s))

\* Mutant of Join: the elements are joined with ", " whatever sep is.
RECURSIVE JoinComma(_, _)
JoinComma(strs, sep) ==
    IF Len(strs) = 0 THEN ""
    ELSE IF Len(strs) = 1 THEN strs[1]
    ELSE strs[1] \o ", " \o JoinComma(Tail(strs), sep)

\* patterns.join("|") of the macro: the elements separated by sep.
RECURSIVE Join(_, _)
Join(strs, sep) ==
    IF Len(strs) = 0 THEN ""
    ELSE IF Len(strs) = 1 THEN strs[1]
    ELSE strs[1] \o sep \o Join(Tail(strs), sep)

\* ------------------------------------------------------------------ regex
\* The regex crate on the pattern language the plugins use: an optional
\* leading flag group (?i), then literals separated by |.  Every other use
\* of a meta character is a syntax error in this fragment; in particular
\* the crate has no look-around, so Regex::new("(?!)") is Err.
MetaChars == {"(", ")", "?", "!", "[", "]", "*", "+", "\\", "{", "}"}
FlagCI == "(?i)"

HasPrefix(s, p) == Len(s) >= Len(p) /\ SubSeq(s, 1, Len(p)) = p

\* The alternatives of s, split at every "|".
RECURSIVE SplitAlt(_, _)
SplitAlt(s, cur) ==
    IF Len(s) = 0 THEN << cur >>
    ELSE IF CharAt(s, 1) = "|" THEN << cur >> \o SplitAlt(Rest(s), "")
    ELSE SplitAlt(Rest(s), cur \o CharAt(s, 1))

\* Regex::new: Ok(matcher) or Err.
RegexNew(pattern) ==
    LET ci == HasPrefix(pattern, FlagCI)
        body == IF ci THEN SubSeq(pattern, Len(FlagCI) + 1, Len(pattern)) ELSE pattern
    IN IF \E k \in 1..Len(body) : CharAt(body, k) \in MetaChars
       THEN [ok |-> FALSE, ci |-> FALSE, alts |-> << >>]
       ELSE [ok |-> TRUE, ci |-> ci, alts |-> SplitAlt(body, "")]

\* Simple case folding of the ASCII letters.
UpperCase == "ABCDEFGHIJKLMNOPQRSTUVWXYZ"
LowerCase == "abcdefghijklmnopqrstuvwxyz"
LowerOf ==
    [u \in {CharAt(UpperCase, k) : k \in 1..Len(UpperCase)} |->
        CharAt(LowerCase, CHOOSE k \in 1..Len(UpperCase) : CharAt(UpperCase, k) = u)]
Fold(c) == IF c \in DOMAIN LowerOf THEN LowerOf[c] ELSE c
Contains(text, lit) ==
    \E k \in 0..(Len(text) - Len(lit)) : SubSeq(text, k + 1, k + Len(lit)) = lit

\* lit occurs in text up to the case of the letters.
ContainsFold(text, lit) ==
    \E k \in 0..(Len(text) - Len(lit)) :
        \A j \in 1..Len(lit) : Fold(CharAt(text, k + j)) = Fold(CharAt(lit, j))

\* Regex::is_match: some alternative occurs anywhere in the text.
IsMatch(re, text) ==
    \E a \in 1..Len(re.alts) :
        IF re.ci THEN ContainsFold(text, re.alts[a])
        ELSE Contains(text, re.alts[a])

\* The pattern registry.rs compiles when the declared pattern is malformed.
Sentinel == "(?!)"

\* Regex::new(pattern).unwrap_or_else(|_| Regex::new("(?!)").unwrap()):
\* the matcher, or a panic when the fallback does not compile either.
CompileOrSentinel(pattern) ==
    LET r == RegexNew(pattern)
        s == RegexNew(Sentinel)
    IN IF r.ok THEN [panic |-> FALSE, regex |-> r]
       ELSE IF s.ok THEN [panic |-> FALSE, regex |-> s]
       ELSE [panic |-> TRUE, regex |-> s]

\* ------------------------------------------------------------------ plugins
\* The #[TeloxidePlugin(...)] attributes of the program: per plugin the
\* arrays given for commands, prefixes, regex and callback.
Declared ==
    << [name |-> "ping", commands |-> <<"ping", "p">>, prefixes |-> <<"/", "!">>,
        regex |-> << >>, callback |-> << >>],
       [name |-> "hello_regex", commands |-> << >>, prefixes |-> << >>,
        regex |-> <<"(?i)hello">>, callback |-> << >>],
       [name |-> "callback", commands |-> << >>, prefixes |-> << >>,
        regex |-> << >>, callback |-> <<"confirm">>],
       [name |-> "pong", commands |-> <<"ping">>, prefixes |-> <<"/">>,
        regex |-> <<"p", "Hello">>, callback |-> << >>],
       [name |-> "broken", commands |-> << >>, prefixes |-> << >>,
        regex |-> <<"(">>, callback |-> << >>],
       [name |-> "choice", commands |-> << >>, prefixes |-> << >>,
        regex |-> << >>, callback |-> <<"confirm", "cancel">>],
       [name |-> "bare", commands |-> <<"ping">>, prefixes |-> << >>,
        regex |-> << >>, callback |-> << >>],
       [name |-> "mixed", commands |-> <<"p">>, prefixes |-> <<"/">>,
        regex |-> << >>, callback |-> <<"confirm">>],
       [name |-> "empty", commands |-> << >>, prefixes |-> << >>,
        regex |-> << >>, callback |-> << >>] >>

\* PluginMeta statics written by hand and passed to register_plugin, which
\* is public (pub mod registry, pub fn register_plugin, pub fields).
HandBuilt ==
    << [name |-> "both", commands |-> << >>, prefixes |-> << >>,
        regex |-> Some("Hello"), callback_filter |-> Some("confirm")] >>

\* One pattern stays as it is, several are joined with "|", none is None.
Combine(patterns) ==
    IF Len(patterns) = 0 THEN None
    ELSE IF Len(patterns) = 1 THEN Some(patterns[1])
    ELSE Some(Join(patterns, "|"))

\* parse_plugin_args: (commands, prefixes, regex, callback_filter).
parse_plugin_args(args) ==
    [commands |-> args.commands, prefixes |-> args.prefixes,
     regex |-> Combine(args.regex), callback_filter |-> Combine(args.callback)]

\* determine_handler_type: "Err", or Ok(is_callback) as "callback"/"message".
determine_handler_type(commands, prefixes, regex, callback_filter) ==
    LET has_message_triggers == Len(commands) # 0 \/ Len(prefixes) # 0 \/ IsSome(regex)
        has_callback_triggers == IsSome(callback_filter)
    IN IF has_message_triggers /\ has_callback_triggers THEN "Err"
       ELSE IF has_message_triggers THEN "message"
       ELSE IF has_callback_triggers THEN "callback"
       ELSE "Err"

\* The macro expansion: the PluginMeta static and whether a ctor that
\* registers it is emitted (a compile error emits nothing).
TeloxidePlugin(args) ==
    LET a == parse_plugin_args(args)
        t == determine_handler_type(a.commands, a.prefixes, a.regex, a.callback_filter)
    IN [ctor |-> t # "Err",
        meta |-> [name |-> args.name, commands |-> a.commands, prefixes |-> a.prefixes,
                  regex |-> a.regex, callback_filter |-> a.callback_filter]]

NumDeclared == Len(Declared)
MacroStatics == 1..NumDeclared
HandStatics == (NumDeclared + 1)..(NumDeclared + Len(HandBuilt))
Statics == MacroStatics \cup HandStatics

\* The expansion of each attribute of the program.
Expanded == [i \in MacroStatics |-> TeloxidePlugin(Declared[i])]

\* The static PluginMeta behind each reference.
Metas ==
    [i \in Statics |->
        IF i \in MacroStatics THEN Expanded[i].meta ELSE HandBuilt[i - NumDeclared]]

\* Mutant of KeysOf: the key is built as cmd + prefix.
KeysOfSuffixed(m) ==
    [k \in 1..(Len(m.prefixes) * Len(m.commands)) |->
        m.commands[((k - 1) % Len(m.commands)) + 1]
            \o m.prefixes[((k - 1) \div Len(m.commands)) + 1]]

\* The keys register_plugin inserts for a plugin, in loop order:
\* for prefix in prefixes { for cmd in commands { prefix + cmd } }.
KeysOf(m) ==
    [k \in 1..(Len(m.prefixes) * Len(m.commands)) |->
        m.prefixes[((k - 1) \div Len(m.commands)) + 1]
            \o m.commands[((k - 1) % Len(m.commands)) + 1]]

\* ------------------------------------------------------------------ events
\* PluginContext: the message text and the callback data, each optional.
Events ==
    { [text |-> Some("/ping"), cb |-> None],
      [text |-> Some("!p"), cb |-> None],
      [text |-> Some("ping"), cb |-> None],
      [text |-> Some("Hello there"), cb |-> None],
      [text |-> None, cb |-> Some("confirm")],
      [text |-> None, cb |-> Some("confirm|cancel")],
      [text |-> None, cb |-> None],
      [text |-> Some("Hello there"), cb |-> Some("confirm")] }
NoEvent == [text |-> None, cb |-> None]
\* The message texts among them.
Texts == {Unwrap(e.text) : e \in {x \in Events : IsSome(x.text)}}

\* ------------------------------------------------------------------ compiled patterns
\* Compiling and matching are functions of the pattern and the text alone:
\* their values for the patterns of the program and the texts of the
\* events, computed once.
Patterns == {Unwrap(Metas[i].regex) : i \in {j \in Statics : IsSome(Metas[j].regex)}}
Compiled == [pattern \in Patterns |-> CompileOrSentinel(pattern)]
Matched ==
    [regex \in {Compiled[pattern].regex : pattern \in Patterns} |->
        {text \in Texts : IsMatch(regex, text)}]

\* regex.is_match(text)
is_match(regex, text) ==
    IF regex \in DOMAIN Matched /\ text \in Texts
    THEN text \in Matched[regex]
    ELSE IsMatch(regex, text)

\* ------------------------------------------------------------------ state
VARIABLES
    registry,     \* PLUGIN_REGISTRY: Vec<&'static PluginMeta>
    regLock,      \* holder of the PLUGIN_REGISTRY mutex, 0 when free
    commandMap,   \* COMMAND_MAP: HashMap<String, &'static PluginMeta>
    cmdWriter,    \* holder of the COMMAND_MAP write lock, 0 when free
    regexCache,   \* REGEX_CACHE: HashMap<&'static str, Regex>
    rpc,          \* register_plugin caller: position
    rplugin,      \* register_plugin caller: the plugin argument
    dpc,          \* dispatch task: position
    event,        \* dispatch task: ctx (text, cb_data)
    plugins,      \* dispatch task: the cloned registry
    idx,          \* dispatch task: position of the for loop in plugins
    re,           \* dispatch task: the Regex in hand inside get_or_compile_regex
    invoked,      \* dispatch task: the plugins whose callback it has called
    result        \* dispatch task: the value returned

vars == << registry, regLock, commandMap, cmdWriter, regexCache, rpc, rplugin,
           dpc, event, plugins, idx, re, invoked, result >>
regVars == << registry, regLock, commandMap, cmdWriter, rpc, rplugin >>
dispVars == << dpc, event, plugins, idx, re, invoked, result >>

NoRegex == [ok |-> FALSE, ci |-> FALSE, alts |-> << >>]
EmptyMap == [k \in {} |-> 0]

Init ==
    /\ registry = << >>
    /\ regLock = 0
    /\ commandMap = EmptyMap
    /\ cmdWriter = 0
    /\ regexCache = EmptyMap
    /\ rpc = [r \in Registrars |-> "idle"]
    /\ rplugin = [r \in Registrars |-> 0]
    /\ dpc = [d \in Dispatchers |-> "idle"]
    /\ event = [d \in Dispatchers |-> NoEvent]
    /\ plugins = [d \in Dispatchers |-> << >>]
    /\ idx = [d \in Dispatchers |-> 0]
    /\ re = [d \in Dispatchers |-> NoRegex]
    /\ invoked = [d \in Dispatchers |-> << >>]
    /\ result = [d \in Dispatchers |-> "none"]

Range(s) == {s[k] : k \in 1..Len(s)}

\* ------------------------------------------------------------------ register_plugin
\* Mutant of RegistryFree: the registry is not guarded by the mutex.
RegistryUnguarded(holder) == TRUE

\* PLUGIN_REGISTRY.lock() succeeds when nobody holds the mutex.
RegistryFree(holder) == holder = 0

\* Mutant of RegPush: registry.push(plugin) is missing.
RegPushSkipped(r, i) ==
    /\ rpc[r] = "idle"
    /\ \A q \in Registrars : q < r => rpc[q] # "idle"
    /\ i \notin Range(registry) \cup Range(rplugin)
    /\ Len(registry) < MaxRegistry
    /\ RegistryFree(regLock)
    /\ LET m == Metas[i]
       IN IF Len(m.prefixes) # 0 /\ Len(m.commands) # 0
          THEN /\ regLock' = r
               /\ rpc' = [rpc EXCEPT ![r] = "maplock"]
               /\ rplugin' = [rplugin EXCEPT ![r] = i]
          ELSE /\ regLock' = 0
               /\ UNCHANGED << rpc, rplugin >>
    /\ UNCHANGED << registry, commandMap, cmdWriter, regexCache >>
    /\ UNCHANGED dispVars

\* register_plugin(plugin) up to the if: PLUGIN_REGISTRY.lock(),
\* registry.push(plugin); without prefixes or commands the function
\* returns and the guard drops.  Each static is registered once (by its
\* ctor), by the lowest idle thread (the threads are interchangeable).
RegPush(r, i) ==
    /\ rpc[r] = "idle"
    /\ \A q \in Registrars : q < r => rpc[q] # "idle"
    /\ i \notin Range(registry) \cup Range(rplugin)
    /\ Len(registry) < MaxRegistry
    /\ RegistryFree(regLock)
    /\ registry' = Append(registry, i)
    /\ LET m == Metas[i]
       IN IF Len(m.prefixes) # 0 /\ Len(m.commands) # 0
          THEN /\ regLock' = r
               /\ rpc' = [rpc EXCEPT ![r] = "maplock"]
               /\ rplugin' = [rplugin EXCEPT ![r] = i]
          ELSE /\ regLock' = 0
               /\ UNCHANGED << rpc, rplugin >>
    /\ UNCHANGED << commandMap, cmdWriter, regexCache >>
    /\ UNCHANGED dispVars

\* The #[ctor] the macro emits beside the static: register_plugin(static).
Ctor(r, i) ==
    /\ i \in MacroStatics
    /\ Expanded[i].ctor
    /\ RegPush(r, i)

\* A direct call of register_plugin on a hand-built static.
DirectRegister(r, i) ==
    /\ i \in HandStatics
    /\ RegPush(r, i)

\* COMMAND_MAP.write()
RegMapLock(r) ==
    /\ rpc[r] = "maplock"
    /\ cmdWriter = 0
    /\ cmdWriter' = r
    /\ rpc' = [rpc EXCEPT ![r] = "insert"]
    /\ UNCHANGED << registry, regLock, commandMap, regexCache, rplugin >>
    /\ UNCHANGED dispVars

\* Mutant of OrInsert: map.insert(key, plugin), the last registration wins.
OrInsertOverwrite(map, key, plugin) ==
    [k \in DOMAIN map \cup {key} |-> IF k = key THEN plugin ELSE map[k]]

\* map.entry(key).or_insert(plugin)
OrInsert(map, key, plugin) ==
    IF key \in DOMAIN map THEN map ELSE map @@ (key :> plugin)

\* Mutant of InsertKeys: the index is rebuilt from the keys of the plugin
\* being registered.
InsertKeysRebuilt(map, keys, k, plugin) == [key \in Range(keys) |-> plugin]

\* The nested loops from the k-th key on.
RECURSIVE InsertKeys(_, _, _, _)
InsertKeys(map, keys, k, plugin) ==
    IF k > Len(keys) THEN map
    ELSE InsertKeys(OrInsert(map, keys[k], plugin), keys, k + 1, plugin)

\* Mutant of RegInsert: the registry guard is leaked (std::mem::forget)
\* and the mutex stays locked after the return.
RegInsertKeepLock(r) ==
    /\ rpc[r] = "insert"
    /\ commandMap' = InsertKeys(commandMap, KeysOf(Metas[rplugin[r]]), 1, rplugin[r])
    /\ cmdWriter' = 0
    /\ rpc' = [rpc EXCEPT ![r] = "idle"]
    /\ rplugin' = [rplugin EXCEPT ![r] = 0]
    /\ UNCHANGED << registry, regLock, regexCache >>
    /\ UNCHANGED dispVars

\* The loops under the write lock; at the end of the function both guards
\* drop.
RegInsert(r) ==
    /\ rpc[r] = "insert"
    /\ commandMap' = InsertKeys(commandMap, KeysOf(Metas[rplugin[r]]), 1, rplugin[r])
    /\ cmdWriter' = 0
    /\ regLock' = 0
    /\ rpc' = [rpc EXCEPT ![r] = "idle"]
    /\ rplugin' = [rplugin EXCEPT ![r] = 0]
    /\ UNCHANGED << registry, regexCache >>
    /\ UNCHANGED dispVars

\* ------------------------------------------------------------------ dispatch
\* Mutant of find_command_plugin: the lookup drops the prefix character
\* and looks the bare command up.
find_command_plugin_bare(map, text) ==
    IF Rest(text) \in DOMAIN map THEN Some(map[Rest(text)]) ELSE None

\* find_command_plugin: map.get(text).copied()
find_command_plugin(map, text) ==
    IF text \in DOMAIN map THEN Some(map[text]) ELSE None

\* Mutant of Scan: the callback_filter is searched in the payload instead
\* of compared with it.
RECURSIVE ScanFilterContains(_, _, _, _)
ScanFilterContains(ev, snapshot, i, fromCb) ==
    IF i > Len(snapshot) THEN [pc |-> "return", idx |-> i, call |-> 0]
    ELSE LET plugin == Metas[snapshot[i]]
         IN IF ~fromCb /\ IsSome(ev.text) /\ IsSome(plugin.regex)
            THEN [pc |-> "cache_read", idx |-> i, call |-> 0]
            ELSE IF /\ IsSome(ev.cb)
                    /\ IsSome(plugin.callback_filter)
                    /\ Contains(Unwrap(ev.cb), Unwrap(plugin.callback_filter))
                 THEN [pc |-> "handler", idx |-> i, call |-> snapshot[i]]
                 ELSE ScanFilterContains(ev, snapshot, i + 1, FALSE)

\* The for loop from position i up to its next suspension point: the
\* .await of get_or_compile_regex for plugins[i] ("cache_read"), the .await
\* of a callback matched by its callback_filter ("handler", call = the
\* plugin), or the end of the loop ("return").  fromCb: the regex part of
\* turn i is over and the body resumes at `if let Some(cb) = cb_data`.
RECURSIVE Scan(_, _, _, _)
Scan(ev, snapshot, i, fromCb) ==
    IF i > Len(snapshot) THEN [pc |-> "return", idx |-> i, call |-> 0]
    ELSE LET plugin == Metas[snapshot[i]]
         IN IF ~fromCb /\ IsSome(ev.text) /\ IsSome(plugin.regex)
            THEN [pc |-> "cache_read", idx |-> i, call |-> 0]
            ELSE IF /\ IsSome(ev.cb)
                    /\ IsSome(plugin.callback_filter)
                    /\ Unwrap(ev.cb) = Unwrap(plugin.callback_filter)
                 THEN [pc |-> "handler", idx |-> i, call |-> snapshot[i]]
                 ELSE Scan(ev, snapshot, i + 1, FALSE)

\* Mutant of Resume: an event that no trigger matched is reported as an
\* error.
ResumeErr(d, s) ==
    /\ idx' = [idx EXCEPT ![d] = s.idx]
    /\ IF s.pc = "return"
       THEN /\ dpc' = [dpc EXCEPT ![d] = "done"]
            /\ result' = [result EXCEPT ![d] = "Err"]
            /\ UNCHANGED invoked
       ELSE /\ dpc' = [dpc EXCEPT ![d] = s.pc]
            /\ invoked' = IF s.pc = "handler"
                          THEN [invoked EXCEPT ![d] = Append(@, s.call)]
                          ELSE invoked
            /\ UNCHANGED result

\* The task moves to the suspension point s; reaching the end of the loop
\* is the final Ok(()).
Resume(d, s) ==
    /\ idx' = [idx EXCEPT ![d] = s.idx]
    /\ IF s.pc = "return"
       THEN /\ dpc' = [dpc EXCEPT ![d] = "done"]
            /\ result' = [result EXCEPT ![d] = "Ok"]
            /\ UNCHANGED invoked
       ELSE /\ dpc' = [dpc EXCEPT ![d] = s.pc]
            /\ invoked' = IF s.pc = "handler"
                          THEN [invoked EXCEPT ![d] = Append(@, s.call)]
                          ELSE invoked
            /\ UNCHANGED result

\* Mutant of AfterRegex: the loop iterates the live registry instead of
\* the clone.
AfterRegexLive(d, regex) ==
    IF IsMatch(regex, Unwrap(event[d].text))
    THEN Resume(d, [pc |-> "handler", idx |-> idx[d], call |-> registry[idx[d]]])
    ELSE Resume(d, Scan(event[d], registry, idx[d], TRUE))

\* get_or_compile_regex has returned regex for plugins[idx]:
\* if regex.is_match(text) the callback is called, else the turn goes on.
AfterRegex(d, regex) ==
    IF is_match(regex, Unwrap(event[d].text))
    THEN Resume(d, [pc |-> "handler", idx |-> idx[d], call |-> plugins[d][idx[d]]])
    ELSE Resume(d, Scan(event[d], plugins[d], idx[d], TRUE))

\* dispatch(ctx) up to the registry lock: text and cb_data are read, and
\* if let Some(plugin) = find_command_plugin(text) { callback.await; return }.
\* The tasks are interchangeable: the lowest idle one takes the event.
DispatchCall(d, e) ==
    /\ dpc[d] = "idle"
    /\ \A q \in Dispatchers : q < d => dpc[q] # "idle"
    /\ event' = [event EXCEPT ![d] = e]
    /\ IF IsSome(e.text)
       THEN /\ cmdWriter = 0
            /\ LET hit == find_command_plugin(commandMap, Unwrap(e.text))
               IN IF IsSome(hit)
                  THEN /\ dpc' = [dpc EXCEPT ![d] = "handler"]
                       /\ invoked' = [invoked EXCEPT ![d] = Append(@, Unwrap(hit))]
                  ELSE /\ dpc' = [dpc EXCEPT ![d] = "snapshot"]
                       /\ UNCHANGED invoked
       ELSE /\ dpc' = [dpc EXCEPT ![d] = "snapshot"]
            /\ UNCHANGED invoked
    /\ UNCHANGED << plugins, idx, re, result, regexCache >>
    /\ UNCHANGED regVars

\* Mutant of Snapshot: the Vec is moved out of the registry
\* (std::mem::take) instead of cloned.
SnapshotTake(d) ==
    /\ dpc[d] = "snapshot"
    /\ RegistryFree(regLock)
    /\ plugins' = [plugins EXCEPT ![d] = registry]
    /\ registry' = << >>
    /\ Resume(d, Scan(event[d], registry, 1, FALSE))
    /\ UNCHANGED << event, re, regexCache >>
    /\ UNCHANGED << regLock, commandMap, cmdWriter, rpc, rplugin >>

\* let plugins = { PLUGIN_REGISTRY.lock().unwrap().clone() }; the loop starts.
Snapshot(d) ==
    /\ dpc[d] = "snapshot"
    /\ RegistryFree(regLock)
    /\ plugins' = [plugins EXCEPT ![d] = registry]
    /\ Resume(d, Scan(event[d], registry, 1, FALSE))
    /\ UNCHANGED << event, re, regexCache >>
    /\ UNCHANGED regVars

\* Mutant of CacheRead: the cache is not consulted, every call compiles.
CacheReadRecompile(d) ==
    /\ dpc[d] = "cache_read"
    /\ LET c == CompileOrSentinel(Unwrap(Metas[plugins[d][idx[d]]].regex))
       IN /\ re' = [re EXCEPT ![d] = c.regex]
          /\ dpc' = [dpc EXCEPT ![d] = IF c.panic THEN "panicked" ELSE "cache_write"]
    /\ UNCHANGED << event, plugins, idx, invoked, result, regexCache >>
    /\ UNCHANGED regVars

\* get_or_compile_regex up to its write().await: a hit returns the clone;
\* a miss compiles, and panics when the fallback pattern is rejected too.
CacheRead(d) ==
    /\ dpc[d] = "cache_read"
    /\ LET pattern == Unwrap(Metas[plugins[d][idx[d]]].regex)
       IN IF pattern \in DOMAIN regexCache
          THEN /\ re' = [re EXCEPT ![d] = regexCache[pattern]]
               /\ AfterRegex(d, regexCache[pattern])
          ELSE LET c == Compiled[pattern]
               IN /\ re' = [re EXCEPT ![d] = c.regex]
                  /\ dpc' = [dpc EXCEPT ![d] = IF c.panic THEN "panicked" ELSE "cache_write"]
                  /\ UNCHANGED << idx, invoked, result >>
    /\ UNCHANGED << event, plugins, regexCache >>
    /\ UNCHANGED regVars

\* Mutant of CacheInsert: the entry stored is a matcher that matches
\* nothing, whatever was compiled.
CacheInsertNoMatch(cache, pattern, regex) ==
    [k \in DOMAIN cache \cup {pattern} |->
        IF k = pattern THEN [ok |-> TRUE, ci |-> FALSE, alts |-> << >>] ELSE cache[k]]

\* cache.insert(pattern, regex.clone())
CacheInsert(cache, pattern, regex) ==
    [k \in DOMAIN cache \cup {pattern} |-> IF k = pattern THEN regex ELSE cache[k]]

\* The rest of get_or_compile_regex: the insert under the write lock, the
\* return, and the is_match of the caller.
CacheWrite(d) ==
    /\ dpc[d] = "cache_write"
    /\ LET pattern == Unwrap(Metas[plugins[d][idx[d]]].regex)
       IN regexCache' = CacheInsert(regexCache, pattern, re[d])
    /\ AfterRegex(d, re[d])
    /\ UNCHANGED << event, plugins, re >>
    /\ UNCHANGED regVars

\* Mutant of HandlerReturn: the return after the callback is missing and
\* the loop body goes on.
HandlerReturnContinue(d) ==
    /\ dpc[d] = "handler"
    /\ Resume(d, Scan(event[d], plugins[d], idx[d], TRUE))
    /\ UNCHANGED << event, plugins, re, regexCache >>
    /\ UNCHANGED regVars

\* The awaited callback future completes: return Ok(()).
HandlerReturn(d) ==
    /\ dpc[d] = "handler"
    /\ dpc' = [dpc EXCEPT ![d] = "done"]
    /\ result' = [result EXCEPT ![d] = "Ok"]
    /\ UNCHANGED << event, plugins, idx, re, invoked, regexCache >>
    /\ UNCHANGED regVars

\* ------------------------------------------------------------------ specification
Next ==
    \/ \E r \in Registrars : \E i \in Statics : Ctor(r, i)
    \/ \E r \in Registrars : \E i \in Statics : DirectRegister(r, i)
    \/ \E r \in Registrars : RegMapLock(r)
    \/ \E r \in Registrars : RegInsert(r)
    \/ \E d \in Dispatchers : \E e \in Events : DispatchCall(d, e)
    \/ \E d \in Dispatchers : Snapshot(d)
    \/ \E d \in Dispatchers : CacheRead(d)
    \/ \E d \in Dispatchers : CacheWrite(d)
    \/ \E d \in Dispatchers : HandlerReturn(d)

Spec == Init /\ [][Next]_vars

\* ------------------------------------------------------------------ fair scheduling
\* Some call in progress takes a step.
Progress ==
    \/ \E r \in Registrars : RegMapLock(r) \/ RegInsert(r)
    \/ \E d \in Dispatchers : Snapshot(d) \/ CacheRead(d) \/ CacheWrite(d) \/ HandlerReturn(d)

\* While some call that has started can take its next step, one of them
\* does: threads run, the runtime polls a task that is ready, and a
\* callback future that is awaited completes.  New calls are never forced.
Fairness == WF_vars(Progress)

SpecLive == Init /\ [][Next]_vars /\ Fairness

\* ------------------------------------------------------------------ cancellation
\* The caller drops the dispatch future at one of its suspension points:
\* REGEX_CACHE.read().await, REGEX_CACHE.write().await or the .await of a
\* callback.  No guard is alive at any of them, so the drop frees the
\* locals and nothing else.
Cancel(d) ==
    /\ dpc[d] \in {"cache_read", "cache_write", "handler"}
    /\ dpc' = [dpc EXCEPT ![d] = "cancelled"]
    /\ UNCHANGED << event, plugins, idx, re, invoked, result, regexCache >>
    /\ UNCHANGED regVars

NextCancel ==
    \/ Next
    \/ \E d \in Dispatchers : Cancel(d)

SpecCancel == Init /\ [][NextCancel]_vars

\* ------------------------------------------------------------------ after startup
\* The statics a register_plugin call can be made for.
Registrable == {i \in MacroStatics : Expanded[i].ctor} \cup HandStatics

\* The Command Index that registering reg[k..] one call after the other
\* builds on top of map.
RECURSIVE IndexFrom(_, _, _)
IndexFrom(map, reg, k) ==
    IF k > Len(reg) THEN map
    ELSE IndexFrom(InsertKeys(map, KeysOf(Metas[reg[k]]), 1, reg[k]), reg, k + 1)

\* The registries of at most MaxStartup distinct statics.
Registries ==
    {reg \in UNION {[1..n -> Registrable] : n \in 0..MaxStartup} :
        \A a, b \in 1..Len(reg) : a # b => reg[a] # reg[b]}

\* The program once every ctor has run: registration is over (it happens
\* before main), the cache is still empty and dispatching begins.
InitFixed ==
    /\ registry \in Registries
    /\ regLock = 0
    /\ commandMap = IndexFrom(EmptyMap, registry, 1)
    /\ cmdWriter = 0
    /\ regexCache = EmptyMap
    /\ rpc = [r \in Registrars |-> "idle"]
    /\ rplugin = [r \in Registrars |-> 0]
    /\ dpc = [d \in Dispatchers |-> "idle"]
    /\ event = [d \in Dispatchers |-> NoEvent]
    /\ plugins = [d \in Dispatchers |-> << >>]
    /\ idx = [d \in Dispatchers |-> 0]
    /\ re = [d \in Dispatchers |-> NoRegex]
    /\ invoked = [d \in Dispatchers |-> << >>]
    /\ result = [d \in Dispatchers |-> "none"]

NextFixed ==
    \/ \E d \in Dispatchers : \E e \in Events : DispatchCall(d, e)
    \/ \E d \in Dispatchers : Snapshot(d)
    \/ \E d \in Dispatchers : CacheRead(d)
    \/ \E d \in Dispatchers : CacheWrite(d)
    \/ \E d \in Dispatchers : HandlerReturn(d)

SpecFixed == InitFixed /\ [][NextFixed]_vars

\* ------------------------------------------------------------------ vocabulary of the properties
TextOf(d) == Unwrap(event[d].text)
CbOf(d) == Unwrap(event[d].cb)
TextOnly(d) == IsSome(event[d].text) /\ ~IsSome(event[d].cb)
CbOnly(d) == ~IsSome(event[d].text) /\ IsSome(event[d].cb)

\* The task has left dispatch: by return or by panic.
Finished(d) == dpc[d] \in {"done", "panicked"}
\* The task took the exact-command path: a callback was called without a
\* registry snapshot ever taken.
CommandPath(d) == invoked[d] # << >> /\ plugins[d] = << >>

\* The regex of static i is well formed and matches text.
RegexMatchesText ==
    [i \in Statics |->
        {text \in Texts :
            /\ IsSome(Metas[i].regex)
            /\ RegexNew(Unwrap(Metas[i].regex)).ok
            /\ IsMatch(RegexNew(Unwrap(Metas[i].regex)), text)}]
RegexMatches(i, text) == text \in RegexMatchesText[i]
Malformed(i) == IsSome(Metas[i].regex) /\ ~RegexNew(Unwrap(Metas[i].regex)).ok
FilterEquals(i, payload) ==
    IsSome(Metas[i].callback_filter) /\ Unwrap(Metas[i].callback_filter) = payload

\* The least position of seq that satisfies P, 0 when there is none.
FirstPos(seq, P(_)) ==
    IF \E k \in 1..Len(seq) : P(seq[k])
    THEN CHOOSE k \in 1..Len(seq) : P(seq[k]) /\ \A h \in 1..(k - 1) : ~P(seq[h])
    ELSE 0
FirstRegex(seq, text) == LET P(i) == RegexMatches(i, text) IN FirstPos(seq, P)
FirstFilter(seq, payload) == LET P(i) == FilterEquals(i, payload) IN FirstPos(seq, P)
Pick(seq, k) == IF k = 0 THEN << >> ELSE << seq[k] >>
PosIn(seq, x) == LET P(i) == i = x IN FirstPos(seq, P)

KeySets == [i \in Statics |-> Range(KeysOf(Metas[i]))]
KeySet(i) == KeySets[i]

\* ------------------------------------------------------------------ C1
\* C1: a dispatch whose text is a key of the Command Index at the lookup
\* calls the callback of the descriptor stored under that key, and a task
\* that has called a callback calls no other one, whatever regexes match.
C1_CommandKeyWins ==
    [][\A d \in Dispatchers :
        /\ ( /\ dpc[d] = "idle" /\ dpc'[d] # "idle"
             /\ IsSome(event'[d].text)
             /\ Unwrap(event'[d].text) \in DOMAIN commandMap )
           => ( /\ dpc'[d] = "handler"
                /\ invoked'[d] = << commandMap[Unwrap(event'[d].text)] >> )
        /\ CommandPath(d) => invoked'[d] = invoked[d] /\ plugins'[d] = << >>]_vars

\* A command dispatch has returned although a descriptor registered before
\* the key's owner declares a regex that matches the text.
C1_Witness ==
    \E d \in Dispatchers :
        /\ dpc[d] = "done" /\ CommandPath(d) /\ TextOnly(d)
        /\ TextOf(d) \in DOMAIN commandMap
        /\ invoked[d] = << commandMap[TextOf(d)] >>
        /\ \E k \in 1..Len(registry) :
            /\ k < PosIn(registry, invoked[d][1])
            /\ RegexMatches(registry[k], TextOf(d))

\* ------------------------------------------------------------------ C2
\* C2 (as claimed): a text dispatch that missed the Command Index calls the
\* callback of the first descriptor of its snapshot whose regex matches the
\* text, stops the scan there, and calls nothing when none matches.
C2_FirstRegexMatchInvoked ==
    \A d \in Dispatchers :
        (Finished(d) /\ TextOnly(d) /\ ~CommandPath(d))
            => LET first == FirstRegex(plugins[d], TextOf(d))
               IN /\ invoked[d] = Pick(plugins[d], first)
                  /\ first # 0 => idx[d] = first

\* ------------------------------------------------------------------ C3
\* A later descriptor of seq that declares a key an earlier one declares.
Collides(seq, j) == \E h \in 1..(j - 1) : KeySet(seq[h]) \cap KeySet(seq[j]) # {}

\* C3: a key two registered descriptors declare never resolves to the
\* later one, and the later one's regex still takes part in the scan: a
\* text dispatch that returns after scanning has called a callback at or
\* before the position of every colliding descriptor whose regex matches.
C3_FirstRegistrationKeepsKey ==
    /\ \A a, b \in 1..Len(registry) :
        a < b => \A key \in KeySet(registry[a]) \cap KeySet(registry[b]) :
                    key \in DOMAIN commandMap
                        => PosIn(registry, commandMap[key]) \in 1..a
    /\ \A d \in Dispatchers :
        (dpc[d] = "done" /\ IsSome(event[d].text) /\ ~CommandPath(d))
            => \A j \in 1..Len(plugins[d]) :
                (Collides(plugins[d], j) /\ RegexMatches(plugins[d][j], TextOf(d)))
                    => /\ invoked[d] # << >>
                       /\ PosIn(plugins[d], invoked[d][1]) \in 1..j

\* Both colliding descriptors are registered, the key is the first one's,
\* and a dispatch has called the second one through its regex.
C3_Witness ==
    /\ Len(registry) = 2
    /\ Collides(registry, 2)
    /\ \A r \in Registrars : rpc[r] = "idle"
    /\ \A key \in KeySet(registry[1]) \cap KeySet(registry[2]) :
        key \in DOMAIN commandMap /\ commandMap[key] = registry[1]
    /\ \E d \in Dispatchers :
        /\ dpc[d] = "done" /\ TextOnly(d)
        /\ plugins[d] = registry
        /\ invoked[d] = << registry[2] >>

\* ------------------------------------------------------------------ C4
\* C4 (as claimed): no dispatch panics, and the matcher the cache holds for
\* a malformed pattern matches no text.
C4_MalformedIsInert ==
    /\ \A d \in Dispatchers : dpc[d] # "panicked"
    /\ \A pattern \in DOMAIN regexCache :
        ~RegexNew(pattern).ok => \A t \in Texts : ~IsMatch(regexCache[pattern], t)

\* ------------------------------------------------------------------ C5
\* C5: a dispatch calls at most one callback, and once it has called one
\* it only awaits it and returns.
C5_AtMostOneHandler ==
    \A d \in Dispatchers :
        /\ Len(invoked[d]) <= 1
        /\ invoked[d] # << >> => dpc[d] \in {"handler", "done"}

\* A dispatch with text and callback data has returned after one callback
\* although its snapshot holds a regex match and a filter match in two
\* descriptors.
C5_Witness ==
    \E d \in Dispatchers :
        /\ dpc[d] = "done" /\ Len(invoked[d]) = 1
        /\ IsSome(event[d].text) /\ IsSome(event[d].cb)
        /\ \E a, b \in 1..Len(plugins[d]) :
            /\ a # b
            /\ RegexMatches(plugins[d][a], TextOf(d))
            /\ FilterEquals(plugins[d][b], CbOf(d))

\* ------------------------------------------------------------------ C6
\* C6: a dispatch with callback data and no text never touches a regex
\* (nor the cache, nor a panic) and calls exactly the first descriptor of
\* its snapshot whose callback_filter equals the payload, or nothing.
C6_CallbackByEquality ==
    \A d \in Dispatchers :
        CbOnly(d) =>
            /\ dpc[d] \in {"snapshot", "handler", "done"}
            /\ re[d] = NoRegex
            /\ dpc[d] \in {"handler", "done"}
                => invoked[d] = Pick(plugins[d], FirstFilter(plugins[d], CbOf(d)))

\* Two descriptors of the snapshot have the payload as their filter and
\* the first one was called.
C6_Witness ==
    \E d \in Dispatchers :
        /\ CbOnly(d) /\ dpc[d] = "done"
        /\ Len(plugins[d]) = 2
        /\ FilterEquals(plugins[d][1], CbOf(d))
        /\ FilterEquals(plugins[d][2], CbOf(d))
        /\ invoked[d] = << plugins[d][1] >>

\* ------------------------------------------------------------------ C7
HasMessageTrigger(m) == Len(m.commands) # 0 \/ Len(m.prefixes) # 0 \/ IsSome(m.regex)
HasCallbackTrigger(m) == IsSome(m.callback_filter)

\* C7 (as claimed): every descriptor of the Registry and of the Command
\* Index has exactly one trigger category populated.
C7_OneTriggerCategory ==
    /\ \A k \in 1..Len(registry) :
        HasMessageTrigger(Metas[registry[k]]) # HasCallbackTrigger(Metas[registry[k]])
    /\ \A key \in DOMAIN commandMap :
        HasMessageTrigger(Metas[commandMap[key]]) # HasCallbackTrigger(Metas[commandMap[key]])

\* ------------------------------------------------------------------ C8
\* The task has made its choice: a callback called, a return, or a panic.
Decided(d) == dpc[d] \in {"handler", "done", "panicked"}

\* C8: with the Registry and the Command Index fixed, two dispatches of
\* the same event content choose the same handler (or none), whatever the
\* cache held when each ran and however the two interleave.
C8_SameEventSameHandler ==
    \A a, b \in Dispatchers :
        (Decided(a) /\ Decided(b) /\ event[a] = event[b])
            => /\ invoked[a] = invoked[b]
               /\ (dpc[a] = "panicked") = (dpc[b] = "panicked")

\* Two dispatches of one text have returned after calling the same
\* descriptor through its regex, which the cache now holds.
C8_Witness ==
    \E a, b \in Dispatchers :
        /\ a # b /\ dpc[a] = "done" /\ dpc[b] = "done"
        /\ event[a] = event[b] /\ TextOnly(a) /\ ~CommandPath(a)
        /\ Len(invoked[a]) = 1 /\ invoked[a] = invoked[b]
        /\ Unwrap(Metas[invoked[a][1]].regex) \in DOMAIN regexCache

\* ------------------------------------------------------------------ C9
\* No trigger of the snapshot, nor of the Command Index, matches the event.
NoTriggerMatches(d) ==
    /\ IsSome(event[d].text) =>
        /\ TextOf(d) \notin DOMAIN commandMap
        /\ FirstRegex(plugins[d], TextOf(d)) = 0
    /\ IsSome(event[d].cb) => FirstFilter(plugins[d], CbOf(d)) = 0

\* C9: dispatch never returns an error; a dispatch that has returned has
\* returned Ok(()), and when no trigger matched its event it has called no
\* callback.
C9_UnmatchedIsOk ==
    \A d \in Dispatchers :
        /\ result[d] \in {"none", "Ok"}
        /\ (dpc[d] = "done") = (result[d] = "Ok")
        /\ (dpc[d] = "done" /\ NoTriggerMatches(d)) => invoked[d] = << >>

\* The event without text and without callback data has been dispatched
\* over a non-empty snapshot: Ok(()) and no callback.
C9_Witness ==
    \E d \in Dispatchers :
        /\ dpc[d] = "done" /\ event[d] = NoEvent
        /\ Len(plugins[d]) >= 1
        /\ result[d] = "Ok" /\ invoked[d] = << >>

\* ------------------------------------------------------------------ C10
\* The statics a register_plugin call in progress is registering.
InProgress == {rplugin[r] : r \in {q \in Registrars : rpc[q] # "idle"}}
Occurrences(seq, x) == Cardinality({k \in 1..Len(seq) : seq[k] = x})

\* C10: at most one register_plugin call is inside the locks; every
\* descriptor registered or being registered is in the Registry exactly
\* once; every key of a descriptor whose call has returned is in the
\* Command Index; and every key maps to the earliest descriptor of the
\* Registry that declares it.
C10_RegisterKeepsStructures ==
    /\ Cardinality({r \in Registrars : rpc[r] # "idle"}) <= 1
    /\ \A r \in Registrars : rpc[r] # "idle" => regLock = r
    /\ \A k \in 1..Len(registry) : Occurrences(registry, registry[k]) = 1
    /\ \A i \in InProgress : Occurrences(registry, i) = 1
    /\ \A k \in 1..Len(registry) :
        registry[k] \notin InProgress => KeySet(registry[k]) \subseteq DOMAIN commandMap
    /\ \A key \in DOMAIN commandMap :
        LET Declares(i) == key \in KeySet(i)
        IN /\ FirstPos(registry, Declares) # 0
           /\ commandMap[key] = registry[FirstPos(registry, Declares)]

\* Two descriptors that declare a common key are registered, both calls
\* have returned, and the key is the first one's.
C10_Witness ==
    /\ Len(registry) = 2
    /\ \A r \in Registrars : rpc[r] = "idle"
    /\ \E key \in KeySet(registry[1]) \cap KeySet(registry[2]) :
        commandMap[key] = registry[1]
    /\ Cardinality(DOMAIN commandMap) >= 2

\* ------------------------------------------------------------------ C11
\* The event of task d matches a trigger of static i.
Triggers(i, d) ==
    \/ IsSome(event[d].text) /\ RegexMatches(i, TextOf(d))
    \/ IsSome(event[d].cb) /\ FilterEquals(i, CbOf(d))

\* C11: the clone a dispatch scans is the whole Registry of the instant
\* of the clone, it never changes afterwards, and the scan tests and calls
\* only descriptors of the clone, whatever is registered meanwhile.
C11_ScanIsSnapshot ==
    [][\A d \in Dispatchers :
        /\ (dpc[d] = "snapshot" /\ dpc'[d] # "snapshot") => plugins'[d] = registry
        /\ dpc[d] \notin {"idle", "snapshot"} => plugins'[d] = plugins[d]
        /\ (dpc'[d] \notin {"idle", "snapshot"} /\ ~CommandPath(d)')
            => /\ idx'[d] <= Len(plugins'[d]) + 1
               /\ \A k \in 1..Len(invoked'[d]) : invoked'[d][k] \in Range(plugins'[d])]_vars

\* A dispatch is suspended inside its scan while the Registry has grown
\* past its clone by a descriptor whose trigger matches the event.
C11_Witness ==
    \E d \in Dispatchers :
        /\ dpc[d] \in {"cache_read", "cache_write"}
        /\ Len(plugins[d]) < Len(registry)
        /\ plugins[d] = SubSeq(registry, 1, Len(plugins[d]))
        /\ \E k \in (Len(plugins[d]) + 1)..Len(registry) : Triggers(registry[k], d)

\* ------------------------------------------------------------------ C12
\* The pattern the task is resolving in get_or_compile_regex.
PatternAt(d) == Unwrap(Metas[plugins[d][idx[d]]].regex)
\* The task has missed the cache and compiled.
Missed(d) == dpc[d] \in {"cache_write", "panicked"}
\* The patterns a finished task has asked get_or_compile_regex for.
Resolved(d) ==
    IF Finished(d) /\ IsSome(event[d].text) /\ ~CommandPath(d)
    THEN {Unwrap(Metas[plugins[d][k]].regex) :
            k \in {j \in 1..Len(plugins[d]) :
                    j <= idx[d] /\ IsSome(Metas[plugins[d][j]].regex)}}
    ELSE {}
\* regex is what compiling pattern has to give: the matcher of the
\* pattern, or for a malformed pattern a matcher that matches nothing.
IsCompilation(regex, pattern) ==
    /\ regex.ok
    /\ RegexNew(pattern).ok => regex = RegexNew(pattern)
    /\ ~RegexNew(pattern).ok => \A t \in Texts : ~IsMatch(regex, t)

\* C12 (as claimed): every cache entry is the compilation of its pattern;
\* two tasks that have missed on the same pattern both hold that
\* compilation; and once two tasks that resolved the same pattern have
\* finished, the cache has the entry for it.
C12_ConcurrentMissesKeepCache ==
    /\ \A pattern \in DOMAIN regexCache : IsCompilation(regexCache[pattern], pattern)
    /\ \A a, b \in Dispatchers :
        (a # b /\ Missed(a) /\ Missed(b) /\ PatternAt(a) = PatternAt(b))
            => /\ dpc[a] = "cache_write" /\ dpc[b] = "cache_write"
               /\ re[a] = re[b]
               /\ IsCompilation(re[a], PatternAt(a))
    /\ \A a, b \in Dispatchers :
        a # b => Resolved(a) \cap Resolved(b) \subseteq DOMAIN regexCache

\* ------------------------------------------------------------------ C13
\* Task d takes a step of its own.
Steps(d) == << dpc[d], idx[d] >> # << dpc'[d], idx'[d] >>
\* Task d finds its pattern in the cache and returns the memoized matcher
\* without compiling or writing.
HitReturnsMemo(d) ==
    (dpc[d] = "cache_read" /\ PatternAt(d) \in DOMAIN regexCache /\ Steps(d))
        => /\ dpc'[d] \notin {"cache_write", "panicked"}
           /\ re'[d] = regexCache[PatternAt(d)]
           /\ regexCache' = regexCache

\* C13 (as claimed): a cache.insert is only ever made for a pattern the
\* cache does not hold yet, and a hit returns the memoized matcher without
\* compiling.
C13_WrittenAtMostOnce ==
    [][\A d \in Dispatchers :
        /\ (dpc[d] = "cache_write" /\ Steps(d)) => PatternAt(d) \notin DOMAIN regexCache
        /\ HitReturnsMemo(d)]_vars

\* C13 (amended): an entry of the cache never changes once it is there:
\* every cache.insert stores the compilation of its pattern, so a second
\* insert by a task that missed before the first one rewrites the same
\* value; and a hit returns the memoized matcher without compiling.
C13_EntryNeverChanges ==
    [][/\ \A pattern \in DOMAIN regexCache :
            pattern \in DOMAIN regexCache' /\ regexCache'[pattern] = regexCache[pattern]
       /\ \A d \in Dispatchers :
            /\ (dpc[d] = "cache_write" /\ Steps(d))
                => regexCache' = regexCache @@ (PatternAt(d) :> RegexNew(PatternAt(d)))
            /\ HitReturnsMemo(d)]_vars

\* The cache holds a pattern while a task that missed on it earlier is
\* about to insert it a second time.
C13_Witness ==
    \E d \in Dispatchers :
        /\ dpc[d] = "cache_write"
        /\ PatternAt(d) \in DOMAIN regexCache
        /\ re[d] = regexCache[PatternAt(d)]

\* ------------------------------------------------------------------ C14
\* Every prefix of the descriptor followed by every command of it.
PrefixCommand(m) == {m.prefixes[a] \o m.commands[b] :
                        a \in 1..Len(m.prefixes), b \in 1..Len(m.commands)}
AllKeys(seq) == UNION {KeySet(seq[k]) : k \in 1..Len(seq)}

\* The keys of every static are its prefix+command concatenations.
KeysAsDeclared == \A i \in Statics : KeySet(i) = PrefixCommand(Metas[i])

\* C14: the keys a descriptor contributes are its prefix+command
\* concatenations (none when it has no prefix or no command); the Command
\* Index holds only keys of registered descriptors and all keys of those
\* whose register_plugin call has returned; a text that is no such key
\* never takes the command path, and the command path calls a descriptor
\* that declares the text as prefix+command.
C14_KeysArePrefixCommand ==
    /\ KeysAsDeclared
    /\ DOMAIN commandMap \subseteq AllKeys(registry)
    /\ (\A r \in Registrars : rpc[r] = "idle") => DOMAIN commandMap = AllKeys(registry)
    /\ \A d \in Dispatchers :
        /\ (dpc[d] # "idle" /\ IsSome(event[d].text) /\ TextOf(d) \notin AllKeys(registry))
            => ~CommandPath(d)
        /\ CommandPath(d) => TextOf(d) \in PrefixCommand(Metas[invoked[d][1]])

\* The descriptor with two commands and two prefixes and one with a
\* command and no prefix are registered; the index has the four keys of
\* the first; a dispatch of the second prefix with the second command has
\* called the first, and a dispatch of the bare command has gone through
\* the scan and called nothing.
C14_Witness ==
    /\ \A r \in Registrars : rpc[r] = "idle"
    /\ Cardinality(DOMAIN commandMap) = 4
    /\ \E a, b \in Dispatchers :
        /\ dpc[a] = "done" /\ CommandPath(a)
        /\ Len(Metas[invoked[a][1]].prefixes) = 2 /\ Len(Metas[invoked[a][1]].commands) = 2
        /\ TextOf(a) = Metas[invoked[a][1]].prefixes[2] \o Metas[invoked[a][1]].commands[2]
        /\ dpc[b] = "done" /\ TextOnly(b) /\ ~CommandPath(b) /\ invoked[b] = << >>
        /\ \E k \in 1..Len(plugins[b]) :
            /\ Len(Metas[plugins[b][k]].prefixes) = 0
            /\ TextOf(b) \in Range(Metas[plugins[b][k]].commands)

\* ------------------------------------------------------------------ C15
\* C15: in every step the Registry keeps its elements and can only get
\* new ones at the end, every key of the Command Index keeps its
\* descriptor, and every pattern of the Regex Cache stays in it.
C15_StructuresOnlyGrow ==
    [][/\ Len(registry) <= Len(registry')
       /\ SubSeq(registry', 1, Len(registry)) = registry
       /\ \A key \in DOMAIN commandMap :
            key \in DOMAIN commandMap' /\ commandMap'[key] = commandMap[key]
       /\ DOMAIN regexCache \subseteq DOMAIN regexCache']_vars

\* All three structures have grown: two descriptors are registered, the
\* second one declaring a key the index already had, the index has
\* several keys and the cache a compiled pattern.
C15_Witness ==
    /\ Len(registry) = 2
    /\ Collides(registry, 2)
    /\ \A r \in Registrars : rpc[r] = "idle"
    /\ Cardinality(DOMAIN commandMap) >= 2
    /\ DOMAIN regexCache # {}

\* ------------------------------------------------------------------ C16
\* C16: a step of a dispatch task, whether it looks up, clones, resolves a
\* regex, calls a callback, returns, panics or is cancelled, leaves the
\* Registry, the Command Index, their locks and the register_plugin calls
\* in progress as they are; only the Regex Cache may differ.
C16_DispatchFrame ==
    [][dispVars' # dispVars
        => /\ registry' = registry
           /\ commandMap' = commandMap
           /\ regLock' = regLock /\ cmdWriter' = cmdWriter
           /\ rpc' = rpc /\ rplugin' = rplugin]_vars

\* A dispatch was cancelled while it awaited the callback it had called, a
\* dispatch that resolved a regex was cancelled or has returned, the cache
\* has an entry, and the Registry and the Command Index hold exactly what
\* the two register_plugin calls put there.
C16_Witness ==
    /\ Len(registry) = 2
    /\ \A r \in Registrars : rpc[r] = "idle"
    /\ commandMap = IndexFrom(EmptyMap, registry, 1)
    /\ DOMAIN commandMap # {}
    /\ DOMAIN regexCache # {}
    /\ \E a, b \in Dispatchers :
        /\ dpc[a] = "cancelled" /\ Len(invoked[a]) = 1
        /\ dpc[b] \in {"cancelled", "done"} /\ re[b] # NoRegex

\* ------------------------------------------------------------------ C17
\* A call that has started and not ended.
Registering(r) == rpc[r] # "idle"
Dispatching(d) == dpc[d] \notin {"idle", "done", "panicked", "cancelled"}
\* The locks are held by register_plugin calls in progress only (a
\* dispatch that waits for the registry or the cache, or awaits a
\* callback, holds none), and the Command Index lock only by the holder of
\* the Registry lock; while a call is in progress some call can step.
LockDiscipline ==
    /\ regLock \in {0} \cup {r \in Registrars : Registering(r)}
    /\ cmdWriter \in {0, regLock}
    /\ \A r \in Registrars : Registering(r) => regLock = r
    /\ \A r \in Registrars : rpc[r] = "insert" <=> cmdWriter = r
    /\ ((\E r \in Registrars : Registering(r)) \/ (\E d \in Dispatchers : Dispatching(d)))
        => ENABLED Progress

\* C17: the lock discipline holds in every state, and under fair
\* scheduling every register_plugin call returns and every dispatch call
\* ends (by its return, or by the unwinding of C4).
C17_NoDeadlock ==
    /\ []LockDiscipline
    /\ \A r \in Registrars : Registering(r) ~> ~Registering(r)
    /\ \A d \in Dispatchers : Dispatching(d) ~> Finished(d)

\* A register_plugin call holds both locks while one dispatch waits for
\* the Registry lock and the other is suspended inside its scan.
C17_Witness ==
    /\ \E r \in Registrars : rpc[r] = "insert" /\ regLock = r /\ cmdWriter = r
    /\ \E a, b \in Dispatchers :
        /\ dpc[a] = "snapshot"
        /\ dpc[b] \in {"cache_read", "cache_write", "handler"}

\* ------------------------------------------------------------------ C18
\* C18: every descriptor the Command Index refers to is an element of the
\* Registry, also while a register_plugin call is between its push and
\* its inserts.
C18_IndexWithinRegistry ==
    \A key \in DOMAIN commandMap : commandMap[key] \in Range(registry)

\* A register_plugin call is inside the key loops: its descriptor is in
\* the Registry, one of its keys is not in the Command Index yet, and the
\* index has the keys of an earlier registration.
C18_Witness ==
    \E r \in Registrars :
        /\ rpc[r] = "insert"
        /\ rplugin[r] \in Range(registry)
        /\ \E key \in KeySet(rplugin[r]) : key \notin DOMAIN commandMap
        /\ DOMAIN commandMap # {}

\* ------------------------------------------------------------------ C19
\* The callback a scan of reg[k..] calls when it runs in one piece.
RECURSIVE ScanChoice(_, _, _)
ScanChoice(ev, reg, k) ==
    IF k > Len(reg) THEN << >>
    ELSE IF \/ IsSome(ev.text) /\ RegexMatches(reg[k], Unwrap(ev.text))
            \/ IsSome(ev.cb) /\ FilterEquals(reg[k], Unwrap(ev.cb))
         THEN << reg[k] >>
         ELSE ScanChoice(ev, reg, k + 1)

\* C19 (as claimed): the callback a text dispatch has called is the choice
\* of one state that existed during the dispatch.  A dispatch on the
\* command path chose as the state of its lookup does.  A dispatch that
\* scanned missed the index at its lookup; if the text was still no key
\* when it cloned the Registry (the key's owner is not in the clone), the
\* state of the clone chooses what the scan of the clone chooses.  If the
\* text was a key by then, with owner X, every state from the insert of
\* the key on chooses X, and the states before it had the Registry up to
\* X at most and no key, so they choose what a scan of the clone up to X
\* chooses.
C19_ChoiceOfOneState ==
    \A d \in Dispatchers :
        (dpc[d] = "done" /\ IsSome(event[d].text)) =>
            LET keyed == /\ TextOf(d) \in DOMAIN commandMap
                         /\ commandMap[TextOf(d)] \in Range(plugins[d])
            IN IF CommandPath(d) THEN invoked[d] = << commandMap[TextOf(d)] >>
               ELSE IF ~keyed THEN invoked[d] = ScanChoice(event[d], plugins[d], 1)
               ELSE LET X == commandMap[TextOf(d)]
                    IN \/ invoked[d] = << X >>
                       \/ invoked[d] = ScanChoice(event[d],
                               SubSeq(plugins[d], 1, PosIn(plugins[d], X)), 1)

\* ------------------------------------------------------------------ C20
\* f[k] | f[k+1] | ... | f[n]
RECURSIVE Barred(_, _)
Barred(f, k) == IF k >= Len(f) THEN f[k] ELSE f[k] \o "|" \o Barred(f, k + 1)
\* The registrable plugins declared with several callback filters.
SeveralFilters == {i \in MacroStatics : Expanded[i].ctor /\ Len(Declared[i].callback) >= 2}

\* f1|...|fn of each of them.
JoinedFilter == [i \in SeveralFilters |-> Barred(Declared[i].callback, 1)]

\* C20: a plugin declared with the callback filters f1..fn has the
\* callback_filter f1|...|fn, and a dispatch of a callback event that has
\* it in its clone calls it only if the payload is that whole string, and
\* does call it if the payload is that string and no earlier descriptor
\* of the clone has the same filter.
C20_JoinedFilterByEquality ==
    \A i \in SeveralFilters :
        /\ Metas[i].callback_filter = Some(JoinedFilter[i])
        /\ \A d \in Dispatchers :
            (CbOnly(d) /\ dpc[d] = "done" /\ i \in Range(plugins[d])) =>
                /\ invoked[d] = << i >> => CbOf(d) = JoinedFilter[i]
                /\ ( /\ CbOf(d) = JoinedFilter[i]
                     /\ \A k \in 1..(PosIn(plugins[d], i) - 1) :
                            ~FilterEquals(plugins[d][k], CbOf(d)) )
                    => invoked[d] = << i >>

\* A plugin with two callback filters is registered; the dispatch of the
\* joined string has called it, and the dispatch of its first filter
\* alone has scanned it and not called it.
C20_Witness ==
    \E i \in SeveralFilters : \E a, b \in Dispatchers :
        /\ CbOnly(a) /\ dpc[a] = "done"
        /\ CbOf(a) = JoinedFilter[i]
        /\ invoked[a] = << i >>
        /\ CbOnly(b) /\ dpc[b] = "done"
        /\ CbOf(b) = Declared[i].callback[1]
        /\ i \in Range(plugins[b])
        /\ invoked[b] # << i >>

====
